---------------------------- MODULE Spec2Model ----------------------------
(*************************************************************************)
(* Model of flask_rest_api.py: an in-memory message queue `q` (a deque   *)
(* of parsed XML elements) with three request handlers, sendMessage,     *)
(* getMessage and findMessages.                                          *)
(*                                                                       *)
(* Representation of values                                              *)
(*   - a Python str is <<"s", chars>>, Python None is <<"None">>, a JSON *)
(*     number is <<"n", k>>; the tags keep values of different Python    *)
(*     types comparable (and unequal), as == does in Python.             *)
(*   - the text of a Timestamp element that is lexically an xs:dateTime  *)
(*     is <<"dt", [y, mo, d, h, mi, tz]>>: the fields as written.        *)
(*   - a request body for /sendMessage is [wf, form, blocks]: whether    *)
(*     the bytes are well-formed XML, a lexical variation that parsing   *)
(*     drops (<Body></Body> against <Body/>, an XML declaration), and    *)
(*     the children of the root element <Message>.                       *)
(*   - a parsed element (what etree.fromstring returns and q holds) is   *)
(*     the sequence of the root's children, each [name, kids], each kid  *)
(*     [name, text].                                                     *)
(*   - lxml elements have one parent: pack_message.append(message)       *)
(*     MOVES the element under the <Messages> root built by that query.  *)
(*     parent[i] names the tree the i-th element of q hangs in (0: it is *)
(*     the root of its own document; else the trees are numbered by the  *)
(*     position in q of their first element still in q), and ghost[i] is *)
(*     the first child of that tree when that child was popped from q    *)
(*     while hanging there (the node stays in the tree, which the later  *)
(*     elements keep alive), else NoElem.                                *)
(*************************************************************************)
EXTENDS Integers, Sequences, FiniteSets, TLC

VARIABLES q, parent, ghost, req, resp, prev, item, result,
          pc, loc, phase, sent, got

storeVars == <<q, parent, ghost>>
histVars  == <<req, resp, prev, item, result>>
concVars  == <<pc, loc>>
fifoVars  == <<phase, sent, got>>
vars      == <<q, parent, ghost, req, resp, prev, item, result,
               pc, loc, phase, sent, got>>

-----------------------------------------------------------------------------
(* Bounds *)

MaxQ == 2

MaxN == 3

-----------------------------------------------------------------------------
(* Python values *)

PyStr(s) == <<"s", s>>
PyNone == <<"None">>
JsonNum(k) == <<"n", k>>

NoElem == <<>>

-----------------------------------------------------------------------------
(* Request bodies for /sendMessage *)

Stamp(y, mo, d, h, mi, tz) ==
    <<"dt", [y |-> y, mo |-> mo, d |-> d, h |-> h, mi |-> mi, tz |-> tz]>>

T1 == Stamp(2023, 5, 1, 14, 30, "Z")
T2 == Stamp(2023, 5, 1, 23, 30, "-05:00")
T3 == Stamp(2023, 5, 2, 0, 0, "Z")

Kid(name, text) == [name |-> name, text |-> text]

HeaderOf(to, from, ts, title, body) ==
    [name |-> "Header",
     kids |-> << Kid("To", PyStr(to)), Kid("From", PyStr(from)),
                 Kid("Timestamp", ts), Kid("Title", PyStr(title)),
                 Kid("Body", PyStr(body)) >>]

Msg(to, from, ts, title) == << HeaderOf(to, from, ts, title, "hello") >>

Messages ==
    { Msg("a", "f", T1, "x"), Msg("a", "f", T2, "y"),
      Msg("b", "f", T3, "x"), Msg("b", "g", T3, "") }

NoBody == << [name |-> "Header",
              kids |-> << Kid("To", PyStr("a")), Kid("From", PyStr("f")),
                          Kid("Timestamp", T1), Kid("Title", PyStr("x")) >>] >>

ExtraSibling ==
    << [name |-> "Header",
        kids |-> << Kid("To", PyStr("a")), Kid("From", PyStr("f")),
                    Kid("Timestamp", T1), Kid("Title", PyStr("x")),
                    Kid("Body", PyStr("hello")), Kid("Cc", PyStr("c")) >>] >>

Swapped ==
    << [name |-> "Header",
        kids |-> << Kid("From", PyStr("f")), Kid("To", PyStr("a")),
                    Kid("Timestamp", T1), Kid("Title", PyStr("x")),
                    Kid("Body", PyStr("hello")) >>] >>

BadStamp == Msg("a", "f", Stamp(2023, 13, 1, 0, 0, "Z"), "x")

NotAStamp == Msg("a", "f", PyStr("yesterday"), "x")

TwoHeaders == Msg("a", "f", T1, "x") \o Msg("a", "f", T1, "x")

NoHeader == << >>

NonConformant ==
    { NoBody, ExtraSibling, Swapped, BadStamp, NotAStamp, TwoHeaders, NoHeader }

Broken == [wf |-> FALSE, form |-> 0, blocks |-> << >>]

Documents ==
    [wf : {TRUE}, form : {0, 1}, blocks : Messages]
      \cup [wf : {TRUE}, form : {0}, blocks : NonConformant]
      \cup {Broken}


-----------------------------------------------------------------------------
(* lxml: parsing and serialisation *)

\* etree.fromstring(request.data): the element tree of the bytes; the lexical
\* form of the bytes is not part of the tree.
fromstring(data) == data.blocks

RECURSIVE KidTokens(_)
KidTokens(kids) ==
    IF kids = << >> THEN << >>
    ELSE LET k == Head(kids) IN
         ( IF k.text = PyStr("")
             THEN << <<"empty", k.name>> >>
             ELSE << <<"open", k.name>>, k.text, <<"close", k.name>> >> )
         \o KidTokens(Tail(kids))

RECURSIVE BlockTokens(_)
BlockTokens(blocks) ==
    IF blocks = << >> THEN << >>
    ELSE LET b == Head(blocks) IN
         << <<"open", b.name>> >> \o KidTokens(b.kids) \o << <<"close", b.name>> >>
         \o BlockTokens(Tail(blocks))

\* etree.tostring(element): the serialisation of the element alone (its parent,
\* if it has one, is not written).
tostring(elem) ==
    << <<"open", "Message">> >> \o BlockTokens(elem) \o << <<"close", "Message">> >>

\* element.text: None for an element without text.
ElemText(kid) == IF kid.text = PyStr("") THEN PyNone ELSE kid.text

-----------------------------------------------------------------------------
(* validate_xml *)

IsLeap(y) == (y % 4 = 0 /\ y % 100 # 0) \/ y % 400 = 0

DaysIn(y, mo) ==
    IF mo = 2 THEN (IF IsLeap(y) THEN 29 ELSE 28)
    ELSE IF mo \in {4, 6, 9, 11} THEN 30 ELSE 31

\* xs:dateTime
IsDateTime(text) ==
    /\ text[1] = "dt"
    /\ LET t == text[2] IN
         /\ t.y # 0
         /\ t.mo \in 1..12
         /\ t.d \in 1..DaysIn(t.y, t.mo)
         /\ \/ t.h \in 0..23 /\ t.mi \in 0..59
            \/ t.h = 24 /\ t.mi = 0

HeaderNames == << "To", "From", "Timestamp", "Title", "Body" >>

HeaderConforms(block) ==
    /\ block.name = "Header"
    /\ Len(block.kids) = Len(HeaderNames)
    /\ \A i \in 1..Len(HeaderNames) :
         /\ block.kids[i].name = HeaderNames[i]
         /\ (HeaderNames[i] = "Timestamp" => IsDateTime(block.kids[i].text))

\* Mutant: a schema whose Header takes any children.
validate_xmlAnyHeader(received_xml) ==
    /\ Len(received_xml) = 1
    /\ received_xml[1].name = "Header"

validate_xml(received_xml) ==
    /\ Len(received_xml) = 1
    /\ HeaderConforms(received_xml[1])

-----------------------------------------------------------------------------
(* validate_json *)

JsonObj(f) == <<"o", f>>

IsObj(v) == v[1] = "o"
IsString(v) == v[1] = "s"
Keys(v) == DOMAIN v[2]

FilterKeys == {"to", "from", "date", "title"}

\* Mutant: a schema without "additionalProperties": False.
validate_filterOpen(f) ==
    IF ~IsObj(f) THEN "data.filter must be object"
    ELSE IF Cardinality(Keys(f)) < 1
      THEN "data.filter must contain at least 1 properties"
    ELSE IF Cardinality(Keys(f)) > 4
      THEN "data.filter must contain less than or equal to 4 properties"
    ELSE IF \E k \in Keys(f) \cap FilterKeys : ~IsString(f[2][k])
      THEN "data.filter.<key> must be string"
    ELSE "valid"

\* The checks of the compiled schema in the order fastjsonschema runs them;
\* the result is 'valid' or the message of the first failed check.
validate_filter(f) ==
    IF ~IsObj(f) THEN "data.filter must be object"
    ELSE IF Cardinality(Keys(f)) < 1
      THEN "data.filter must contain at least 1 properties"
    ELSE IF Cardinality(Keys(f)) > 4
      THEN "data.filter must contain less than or equal to 4 properties"
    ELSE IF \E k \in Keys(f) \cap FilterKeys : ~IsString(f[2][k])
      THEN "data.filter.<key> must be string"
    ELSE IF Keys(f) \ FilterKeys # {}
      THEN "data.filter must not contain additional properties"
    ELSE "valid"

validate_json(received_json) ==
    IF ~IsObj(received_json) THEN "data must be object"
    ELSE IF "filter" \notin Keys(received_json)
      THEN "data must contain ['filter'] properties"
    ELSE validate_filter(received_json[2]["filter"])

-----------------------------------------------------------------------------
(* Request bodies for /findMessages *)

FilterValues(key) ==
    CASE key = "to"    -> {"a", "b"}
      [] key = "from"  -> {"f"}
      [] key = "title" -> {"x", ""}
      [] key = "date"  -> {"01.05.2023", "02.05.2023"}

\* The filter objects with one or two recognised keys and string values, and
\* two with three and four keys.
ValidFilters ==
    { f \in UNION { [K -> {PyStr(v) : v \in UNION {FilterValues(k) : k \in K}}] :
                    K \in { L \in SUBSET FilterKeys : Cardinality(L) \in 1..2 } } :
        \A k \in DOMAIN f : f[k][2] \in FilterValues(k) }
      \cup { [to |-> PyStr("a"), from |-> PyStr("f"), date |-> PyStr("01.05.2023")],
             [to |-> PyStr("a"), from |-> PyStr("f"), title |-> PyStr("x"),
              date |-> PyStr("01.05.2023")] }

AFilter == [to |-> PyStr("a")]

Queries ==
    { JsonObj([filter |-> JsonObj(f)]) : f \in ValidFilters }
      \cup { JsonObj([filter |-> JsonObj(AFilter), limit |-> JsonNum(1)]),
             JsonObj([filter |-> JsonObj(<< >>)]),
             JsonObj([filter |-> JsonObj([to |-> PyStr("a"), cc |-> PyStr("c")])]),
             JsonObj([filter |-> JsonObj([to |-> JsonNum(1)])]),
             JsonObj([filter |-> JsonObj([to |-> PyStr("a"), from |-> PyStr("f"),
                                          title |-> PyStr("x"),
                                          date |-> PyStr("01.05.2023"),
                                          cc |-> PyStr("c")])]),
             JsonObj([filter |-> PyStr("a")]),
             JsonObj([to |-> PyStr("a")]),
             JsonNum(1) }

-----------------------------------------------------------------------------
(* apply_filter *)

paths(key) ==
    CASE key = "to"    -> "To"
      [] key = "from"  -> "From"
      [] key = "title" -> "Title"
      [] key = "date"  -> "Timestamp"

\* The root of the tree the i-th element of the store hangs in, as the first
\* <Message> of that tree in document order: the element itself when it has no
\* parent, else the first child of its <Messages> parent.
FirstMessage(store, pv, gh, i) ==
    IF pv[i] = 0 THEN store[i]
    ELSE IF gh[i] # NoElem THEN gh[i]
    ELSE store[CHOOSE j \in 1..Len(store) :
                 pv[j] = pv[i] /\ \A k \in 1..(j - 1) : pv[k] # pv[i]]

\* message.xpath("//*[local-name() = $name]", name=...)[0]: an absolute path,
\* evaluated from the root of the tree the message hangs in; [0] is the first
\* hit in document order.
xpath0(store, pv, gh, i, name) ==
    LET kids == FirstMessage(store, pv, gh, i)[1].kids
        k == CHOOSE n \in 1..Len(kids) :
                 kids[n].name = name /\ \A m \in 1..(n - 1) : kids[m].name # name
    IN kids[k]

check_mssg(store, pv, gh, i, key) == ElemText(xpath0(store, pv, gh, i, paths(key)))

Pad2(n) == ToString(n \div 10) \o ToString(n % 10)

\* parse(text).strftime('%d.%m.%Y'): the date as written; the time of day and
\* the offset are parsed and not used.  The timestamps of Messages are ones
\* dateutil parses (four-digit years, hours below 24).
strftime(text) ==
    PyStr(Pad2(text[2].d) \o "." \o Pad2(text[2].mo) \o "." \o ToString(text[2].y))

check_date(store, pv, gh, i, key) == strftime(check_mssg(store, pv, gh, i, key))

match(store, pv, gh, i, s) ==
    \A key \in FilterKeys \cap DOMAIN s :
        IF key = "date" THEN check_date(store, pv, gh, i, key) = s[key]
        ELSE s[key] = check_mssg(store, pv, gh, i, key)

\* The loop over q: a matching message is appended to pack_message, which
\* moves it there from the tree it was in.  P is the tree of pack_message.
RECURSIVE ScanFrom(_, _, _, _, _)
ScanFrom(i, store, st, s, P) ==
    IF i > Len(store) THEN st
    ELSE ScanFrom(i + 1, store,
                  IF match(store, st.pv, st.gh, i, s)
                    THEN [pv |-> [st.pv EXCEPT ![i] = P],
                          gh |-> [st.gh EXCEPT ![i] = NoElem]]
                    ELSE st,
                  s, P)

RECURSIVE Children(_, _, _, _)
Children(i, store, pv, P) ==
    IF i > Len(store) THEN << >>
    ELSE (IF pv[i] = P THEN << store[i] >> ELSE << >>) \o Children(i + 1, store, pv, P)

\* The trees renumbered by the position of their first element in q.  An
\* element that is the only child of its tree is numbered as a root: the first
\* hit of an absolute path is in it either way, and popping it frees the tree.
Members(pv, i) == { j \in 1..Len(pv) : pv[j] = pv[i] }

Renumber(pv, gh) ==
    [i \in 1..Len(pv) |->
       IF pv[i] = 0 \/ (Members(pv, i) = {i} /\ gh[i] = NoElem) THEN 0
       ELSE CHOOSE j \in Members(pv, i) : \A k \in Members(pv, i) : j <= k]

\* etree.Element("Messages"): a new tree.
NewTree(pv) == Len(pv) + 1

\* pack_message as a value: its children, or None.
Pack(children) == [none |-> FALSE, children |-> children]
NoPack == [none |-> TRUE]

\* [pack |-> pack_message or None; pv, gh |-> the trees after the loop]
apply_filter(store, pv, gh, json_data) ==
    LET s == json_data[2]["filter"][2]
        P == NewTree(pv)
        after == ScanFrom(1, store, [pv |-> pv, gh |-> gh], s, P)
        pack_message == Children(1, store, after.pv, P)
    IN [pack |-> IF Len(pack_message) > 0 THEN Pack(pack_message) ELSE NoPack,
        pv |-> Renumber(after.pv, after.gh),
        gh |-> after.gh]

-----------------------------------------------------------------------------
(* Responses *)

Response(status, text) == [status |-> status, error |-> text]

Created == Response(201, "")
NoContent == Response(204, "")
Ok == Response(200, "")
BadRequest == Response(400, "bad request")
AlreadyExist == Response(400, "message already exist")
Incorrect == Response(422, "xml is incorrect")
QueueIsEmpty == Response(404, "Queue is empty")
NotFound == Response(404, "message not found")
InternalError == Response(500, "Internal server error")

\* What a handler leaves behind: the store and what it returned.
Outcome(store, pv, gh, r, it, res) ==
    [q |-> store, parent |-> pv, ghost |-> gh, resp |-> r, item |-> it, result |-> res]

Same(store, pv, gh, r) == Outcome(store, pv, gh, r, NoElem, NoPack)

-----------------------------------------------------------------------------
(* Handlers, one request served at a time *)

\* Mutant: the elements compared with ==, which is identity for lxml elements.
IsDuplicateByIdentity(item_xml, store) == FALSE

\* for message in q: if etree.tostring(item_xml) == etree.tostring(message)
IsDuplicate(item_xml, store) ==
    /\ Len(store) > 0
    /\ \E i \in 1..Len(store) : tostring(item_xml) = tostring(store[i])

\* Mutant: q.appendleft(item_xml).
appendleft(store, x) == << x >> \o store

\* q.append(item_xml)
append(store, x) == Append(store, x)

sendMessage(store, pv, gh, data) ==
    IF ~data.wf THEN Same(store, pv, gh, BadRequest)
    ELSE LET item_xml == fromstring(data) IN
         IF validate_xml(item_xml)
           THEN IF IsDuplicate(item_xml, store)
                  THEN Same(store, pv, gh, AlreadyExist)
                  ELSE Same(append(store, item_xml), Append(pv, 0),
                            Append(gh, NoElem), Created)
           ELSE Same(store, pv, gh, Incorrect)

\* Mutant: q.pop(), the newest record first.
getMessagePopRight(store, pv, gh) ==
    IF Len(store) = 0 THEN Same(store, pv, gh, InternalError)
    ELSE LET n == Len(store)
         IN Outcome([i \in 1..(n - 1) |-> store[i]], [i \in 1..(n - 1) |-> 0],
                    [i \in 1..(n - 1) |-> NoElem], NoContent, store[n], NoPack)

\* Mutant: q[0], the oldest record read and left in q.
getMessagePeek(store, pv, gh) ==
    IF Len(store) = 0 THEN Same(store, pv, gh, InternalError)
    ELSE Outcome(store, pv, gh, NoContent, store[1], NoPack)

\* q.popleft(): IndexError on an empty deque, which Flask answers with 500.
\* The popped element stays a node of the tree it hangs in.
getMessage(store, pv, gh) ==
    IF Len(store) = 0 THEN Same(store, pv, gh, InternalError)
    ELSE LET gh1 == [i \in 1..Len(gh) |->
                        IF pv[1] # 0 /\ pv[i] = pv[1] /\ gh[i] = NoElem
                          THEN store[1] ELSE gh[i]]
         IN Outcome(Tail(store), Renumber(Tail(pv), Tail(gh1)), Tail(gh1),
                    NoContent, store[1], NoPack)

\* Mutant: the matching messages are taken out of q.
findMessagesConsuming(store, pv, gh, filter_json) ==
    LET res == validate_json(filter_json) IN
    IF res = "valid"
      THEN LET found == apply_filter(store, pv, gh, filter_json)
               keep == { i \in 1..Len(store) : found.pv[i] = 0 }
               left == SelectSeq(store, LAMBDA e : \E i \in keep : store[i] = e)
           IN IF ~found.pack.none
                THEN Outcome(left, [i \in 1..Len(left) |-> 0],
                             [i \in 1..Len(left) |-> NoElem], Ok, NoElem, found.pack)
                ELSE Outcome(store, found.pv, found.gh, NotFound, NoElem, NoPack)
      ELSE Same(store, pv, gh, Response(400, res))

findMessages(store, pv, gh, filter_json) ==
    LET res == validate_json(filter_json) IN
    IF res = "valid"
      THEN LET found == apply_filter(store, pv, gh, filter_json) IN
           IF ~found.pack.none
             THEN Outcome(store, found.pv, found.gh, Ok, NoElem, found.pack)
             ELSE Outcome(store, found.pv, found.gh, NotFound, NoElem, NoPack)
      ELSE Same(store, pv, gh, Response(400, res))

\* Mutant: the handler registered without the decorator.
isQueueSkipped(store, pv, gh, func) == func

\* The decorator: the handler runs only on a non-empty queue.
isQueue(store, pv, gh, func) ==
    IF Len(store) = 0 THEN Same(store, pv, gh, QueueIsEmpty) ELSE func

-----------------------------------------------------------------------------
(* The server, one request at a time *)

NoRequest == [op |-> "none"]

Idle == /\ pc = [t \in {} |-> 0]
        /\ loc = [t \in {} |-> 0]
        /\ phase = "none"
        /\ sent = << >>
        /\ got = << >>

Init ==
    /\ q = << >>
    /\ parent = << >>
    /\ ghost = << >>
    /\ req = NoRequest
    /\ resp = Response(0, "")
    /\ prev = << >>
    /\ item = NoElem
    /\ result = NoPack
    /\ Idle

ServeUpTo(cap, request, o) ==
    /\ Len(o.q) <= cap
    /\ req' = request
    /\ prev' = q
    /\ q' = o.q
    /\ parent' = o.parent
    /\ ghost' = o.ghost
    /\ resp' = o.resp
    /\ item' = o.item
    /\ result' = o.result

Serve(request, o) == ServeUpTo(MaxQ, request, o)

SendMessage ==
    /\ \E data \in Documents :
         Serve([op |-> "send", with |-> data], sendMessage(q, parent, ghost, data))
    /\ UNCHANGED <<concVars, fifoVars>>

GetMessage ==
    /\ Serve([op |-> "get"], isQueue(q, parent, ghost, getMessage(q, parent, ghost)))
    /\ UNCHANGED <<concVars, fifoVars>>

FindMessages ==
    /\ \E filter_json \in Queries :
         Serve([op |-> "find", with |-> filter_json],
               isQueue(q, parent, ghost, findMessages(q, parent, ghost, filter_json)))
    /\ UNCHANGED <<concVars, fifoVars>>

Next == SendMessage \/ GetMessage \/ FindMessages

Spec == Init /\ [][Next]_vars

-----------------------------------------------------------------------------
(* Submissions into an empty store, then consumptions *)

InitFifo ==
    /\ q = << >>
    /\ parent = << >>
    /\ ghost = << >>
    /\ req = NoRequest
    /\ resp = Response(0, "")
    /\ prev = << >>
    /\ item = NoElem
    /\ result = NoPack
    /\ pc = [t \in {} |-> 0]
    /\ loc = [t \in {} |-> 0]
    /\ phase = "fill"
    /\ sent = << >>
    /\ got = << >>

FifoSubmit ==
    /\ phase = "fill"
    /\ \E data \in Documents :
         ServeUpTo(MaxN, [op |-> "send", with |-> data],
                   sendMessage(q, parent, ghost, data))
    /\ sent' = IF resp' = Created THEN Append(sent, req'.with.blocks) ELSE sent
    /\ UNCHANGED <<phase, got, concVars>>

FifoConsume ==
    /\ ServeUpTo(MaxN, [op |-> "get"],
                 isQueue(q, parent, ghost, getMessage(q, parent, ghost)))
    /\ phase' = "drain"
    /\ got' = IF resp' = NoContent THEN Append(got, item') ELSE got
    /\ UNCHANGED <<sent, concVars>>

NextFifo == FifoSubmit \/ FifoConsume

SpecFifo == InitFifo /\ [][NextFifo]_vars

-----------------------------------------------------------------------------
(* The server with two requests in service at once.  app.run() serves each
   request in a thread of its own; the handlers take no lock, so another
   thread may run between any two operations on q. *)

Threads == {1, 2}

Waiting == [op |-> "none", resp |-> Response(0, "")]

Answer(op, r) == [op |-> op, resp |-> r]

InitConc ==
    /\ q = << >>
    /\ parent = << >>
    /\ ghost = << >>
    /\ req = NoRequest
    /\ resp = Response(0, "")
    /\ prev = << >>
    /\ item = NoElem
    /\ result = NoPack
    /\ pc = [t \in Threads |-> "idle"]
    /\ loc = [t \in Threads |-> Waiting]
    /\ phase = "none"
    /\ sent = << >>
    /\ got = << >>

\* A change of q while another thread iterates over it: the iterator of a deque
\* raises RuntimeError at its next step when the deque was mutated.
Mutated(t) ==
    [u \in Threads |->
       IF u # t /\ pc[u] \in {"next", "scan"}
         THEN [loc[u] EXCEPT !.mutated = TRUE] ELSE loc[u]]

\* sendMessage up to the test of validate_xml: nothing shared is read.
ConcSendStart(t) ==
    /\ pc[t] = "idle"
    /\ \E data \in Documents :
         IF ~data.wf
           THEN /\ loc' = [loc EXCEPT ![t] = Answer("send", BadRequest)]
                /\ pc' = pc
           ELSE IF validate_xml(fromstring(data))
             THEN /\ loc' = [loc EXCEPT ![t] = [op |-> "send", resp |-> Response(0, ""),
                                                item_xml |-> fromstring(data)]]
                  /\ pc' = [pc EXCEPT ![t] = "len"]
             ELSE /\ loc' = [loc EXCEPT ![t] = Answer("send", Incorrect)]
                  /\ pc' = pc
    /\ UNCHANGED <<storeVars, histVars, fifoVars>>

\* if len(q):
ConcSendLen(t) ==
    /\ pc[t] = "len"
    /\ pc' = [pc EXCEPT ![t] = IF Len(q) > 0 THEN "for" ELSE "append"]
    /\ UNCHANGED <<storeVars, histVars, fifoVars, loc>>

\* for message in q: the iterator is created.
ConcSendFor(t) ==
    /\ pc[t] = "for"
    /\ loc' = [loc EXCEPT ![t] = [op |-> "send", resp |-> Response(0, ""),
                                  item_xml |-> loc[t].item_xml,
                                  index |-> 1, counter |-> Len(q),
                                  mutated |-> FALSE]]
    /\ pc' = [pc EXCEPT ![t] = "next"]
    /\ UNCHANGED <<storeVars, histVars, fifoVars>>

\* One step of the loop: the next message and the comparison with it.
ConcSendNext(t) ==
    /\ pc[t] = "next"
    /\ IF loc[t].mutated
         THEN /\ loc' = [loc EXCEPT ![t] = Answer("send", InternalError)]
              /\ pc' = [pc EXCEPT ![t] = "idle"]
         ELSE IF loc[t].counter = 0
           THEN /\ loc' = [loc EXCEPT ![t] = [op |-> "send", resp |-> Response(0, ""),
                                              item_xml |-> loc[t].item_xml]]
                /\ pc' = [pc EXCEPT ![t] = "append"]
           ELSE IF tostring(loc[t].item_xml) = tostring(q[loc[t].index])
             THEN /\ loc' = [loc EXCEPT ![t] = Answer("send", AlreadyExist)]
                  /\ pc' = [pc EXCEPT ![t] = "idle"]
             ELSE /\ loc' = [loc EXCEPT ![t].index = @ + 1, ![t].counter = @ - 1]
                  /\ pc' = pc
    /\ UNCHANGED <<storeVars, histVars, fifoVars>>

\* q.append(item_xml)
ConcSendAppend(t) ==
    /\ pc[t] = "append"
    /\ Len(q) < MaxQ
    /\ q' = append(q, loc[t].item_xml)
    /\ parent' = Append(parent, 0)
    /\ ghost' = Append(ghost, NoElem)
    /\ loc' = [Mutated(t) EXCEPT ![t] = Answer("send", Created)]
    /\ pc' = [pc EXCEPT ![t] = "idle"]
    /\ UNCHANGED <<histVars, fifoVars>>

\* The decorator's test in front of getMessage.
ConcGetStart(t) ==
    /\ pc[t] = "idle"
    /\ IF Len(q) = 0
         THEN /\ loc' = [loc EXCEPT ![t] = Answer("get", QueueIsEmpty)]
              /\ pc' = pc
         ELSE /\ loc' = [loc EXCEPT ![t] = Answer("get", Response(0, ""))]
              /\ pc' = [pc EXCEPT ![t] = "popleft"]
    /\ UNCHANGED <<storeVars, histVars, fifoVars>>

\* item = q.popleft()
ConcGetPop(t) ==
    /\ pc[t] = "popleft"
    /\ LET o == getMessage(q, parent, ghost) IN
         /\ q' = o.q
         /\ parent' = o.parent
         /\ ghost' = o.ghost
         /\ loc' = [(IF Len(q) > 0 THEN Mutated(t) ELSE loc)
                      EXCEPT ![t] = Answer("get", o.resp)]
    /\ pc' = [pc EXCEPT ![t] = "idle"]
    /\ UNCHANGED <<histVars, fifoVars>>

NextConc ==
    \E t \in Threads :
        \/ ConcSendStart(t)
        \/ ConcSendLen(t)
        \/ ConcSendFor(t)
        \/ ConcSendNext(t)
        \/ ConcSendAppend(t)
        \/ ConcGetStart(t)
        \/ ConcGetPop(t)

SpecConc == InitConc /\ [][NextConc]_vars

-----------------------------------------------------------------------------
(* Queries in service at once with each other and with submissions and
   consumptions.  One turn of apply_filter's loop is one step. *)

\* The filter documents the threads send.
ScanQueries ==
    { JsonObj([filter |-> JsonObj([to |-> PyStr("a")])]),
      JsonObj([filter |-> JsonObj([title |-> PyStr("x")])]),
      JsonObj([filter |-> JsonObj([cc |-> PyStr("a")])]) }

\* pack_message of the thread, as the tree its children hang in.
PackOf(t) == 0 - t

\* The trees renumbered, those in keep left as they are: the pack_message of
\* a thread whose loop goes on is still the tree the thread appends to.
Release(pv, gh, keep) ==
    LET r == Renumber(pv, gh)
    IN [i \in 1..Len(pv) |-> IF pv[i] \in keep THEN pv[i] ELSE r[i]]

\* The pack_message objects of the other threads inside the loop.
OtherPacks(t) == { PackOf(u) : u \in { v \in Threads : v # t /\ pc[v] = "scan" } }

\* What a query ended with: the response, the messages its loop appended to
\* pack_message, and the pack_message it serialised.
FindAnswer(r, matched, pack) ==
    [op |-> "find", resp |-> r, matched |-> matched, result |-> pack]

\* The decorator's test, then get_json and validate_json: only the test
\* reads q.
ConcFindStart(t) ==
    /\ pc[t] = "idle"
    /\ IF Len(q) = 0
         THEN /\ loc' = [loc EXCEPT ![t] = FindAnswer(QueueIsEmpty, << >>, NoPack)]
              /\ pc' = pc
         ELSE \E filter_json \in ScanQueries :
                LET res == validate_json(filter_json) IN
                IF res = "valid"
                  THEN /\ loc' = [loc EXCEPT ![t] =
                                    [op |-> "find", resp |-> Response(0, ""),
                                     s |-> filter_json[2]["filter"][2]]]
                       /\ pc' = [pc EXCEPT ![t] = "apply"]
                  ELSE /\ loc' = [loc EXCEPT ![t] =
                                    FindAnswer(Response(400, res), << >>, NoPack)]
                       /\ pc' = pc
    /\ UNCHANGED <<storeVars, histVars, fifoVars>>

\* pack_message = etree.Element("Messages"); for message in q: the iterator
\* is created.
ConcFindFor(t) ==
    /\ pc[t] = "apply"
    /\ loc' = [loc EXCEPT ![t] = [op |-> "find", resp |-> Response(0, ""),
                                  s |-> loc[t].s,
                                  index |-> 1, counter |-> Len(q),
                                  mutated |-> FALSE, matched |-> << >>]]
    /\ pc' = [pc EXCEPT ![t] = "scan"]
    /\ UNCHANGED <<storeVars, histVars, fifoVars>>

\* One turn of the loop: the next message, its test and its move into
\* pack_message; at the end of q, the response.  RuntimeError when q was
\* changed since the iterator was created, which Flask answers with 500.
ConcFindNext(t) ==
    /\ pc[t] = "scan"
    /\ IF loc[t].mutated
         THEN /\ loc' = [loc EXCEPT ![t] =
                           FindAnswer(InternalError, loc[t].matched, NoPack)]
              /\ pc' = [pc EXCEPT ![t] = "idle"]
              /\ parent' = Release(parent, ghost, OtherPacks(t))
              /\ ghost' = ghost
         ELSE IF loc[t].counter = 0
           THEN LET pack_message == Children(1, q, parent, PackOf(t)) IN
                /\ loc' = [loc EXCEPT ![t] =
                             IF Len(pack_message) > 0
                               THEN FindAnswer(Ok, loc[t].matched, Pack(pack_message))
                               ELSE FindAnswer(NotFound, loc[t].matched, NoPack)]
                /\ pc' = [pc EXCEPT ![t] = "idle"]
                /\ parent' = Release(parent, ghost, OtherPacks(t))
                /\ ghost' = ghost
           ELSE LET i == loc[t].index
                    hit == match(q, parent, ghost, i, loc[t].s)
                    gh1 == IF hit THEN [ghost EXCEPT ![i] = NoElem] ELSE ghost
                    pv1 == IF hit THEN [parent EXCEPT ![i] = PackOf(t)] ELSE parent
                IN /\ loc' = [loc EXCEPT ![t].index = @ + 1,
                                         ![t].counter = @ - 1,
                                         ![t].matched =
                                            IF hit THEN Append(@, q[i]) ELSE @]
                   /\ pc' = pc
                   /\ ghost' = gh1
                   /\ parent' = Release(pv1, gh1, OtherPacks(t) \cup {PackOf(t)})
    /\ UNCHANGED <<q, histVars, fifoVars>>

NextScan ==
    \E t \in Threads :
        \/ ConcSendStart(t)
        \/ ConcSendLen(t)
        \/ ConcSendFor(t)
        \/ ConcSendNext(t)
        \/ ConcSendAppend(t)
        \/ ConcGetStart(t)
        \/ ConcGetPop(t)
        \/ ConcFindStart(t)
        \/ ConcFindFor(t)
        \/ ConcFindNext(t)

SpecScan == InitConc /\ [][NextScan]_vars

-----------------------------------------------------------------------------
(* The outcomes of a request, in the words of the specification *)

ParseError == req.op = "send" /\ resp = BadRequest
SchemaError == req.op = "send" /\ resp = Incorrect
DuplicateError == req.op = "send" /\ resp = AlreadyExist
Accepted == req.op = "send" /\ resp = Created
EmptyError == req.op \in {"get", "find"} /\ resp = QueueIsEmpty
Removed == req.op = "get" /\ resp = NoContent
FilterValidationError == req.op = "find" /\ resp.status = 400
NoMatchError == req.op = "find" /\ resp = NotFound
Matches == req.op = "find" /\ resp = Ok

\* The five fields of a stored record.
Field(elem, name) ==
    LET kids == elem[1].kids
    IN kids[CHOOSE n \in 1..Len(kids) : kids[n].name = name].text

\* A request body that is a conformant message: one Header with To, From,
\* Timestamp, Title, Body, each once and in that order, the Timestamp a date-time.
FiveFields(blocks) ==
    /\ Len(blocks) = 1
    /\ blocks[1].name = "Header"
    /\ [i \in 1..Len(blocks[1].kids) |-> blocks[1].kids[i].name] = HeaderNames

Conformant(data) ==
    /\ data.wf
    /\ FiveFields(data.blocks)
    /\ IsDateTime(Field(data.blocks, "Timestamp"))

-----------------------------------------------------------------------------
(* C1 *)

\* C1: in every reachable state of the server handling one request at a time,
\* no two records of the store have the same serialisation.
C1_NoDuplicates ==
    \A i, j \in 1..Len(q) : i # j => tostring(q[i]) # tostring(q[j])

\* A second submission of a stored record met a store of two records.
C1_Witness == DuplicateError /\ Len(q) = 2 /\ fromstring(req.with) = q[2]

-----------------------------------------------------------------------------
(* C2 *)

\* A conformant message none of the stored records equals is accepted and is
\* the new tail of the store.
C2_Grows ==
    (/\ req.op = "send"
     /\ Conformant(req.with)
     /\ \A i \in 1..Len(prev) : prev[i] # req.with.blocks)
      => (Accepted /\ q = Append(prev, req.with.blocks))

\* The same bytes submitted again right after they were accepted are rejected
\* as a duplicate and the store stays as it is.
C2_Again ==
    (/\ Accepted
     /\ req'.op = "send"
     /\ req'.with = req.with)
      => (resp' = AlreadyExist /\ q' = q)

\* C2: submitting a conformant message that is not in the store is accepted
\* and grows the store by exactly that record at the tail; submitting the
\* identical message again immediately afterwards yields DuplicateError and
\* leaves the store unchanged.
C2_SubmitTwice == [](C2_Grows) /\ [][C2_Again]_vars

\* The record at the tail of a store of two was submitted again, in another
\* lexical form of the same document, and rejected.
C2_Witness ==
    /\ DuplicateError
    /\ req.with.form = 1
    /\ Len(prev) = 2
    /\ q = prev
    /\ req.with.blocks = q[2]

-----------------------------------------------------------------------------
(* C3 *)

\* C3: after N pairwise distinct conformant messages were accepted in order
\* into an empty store, the consumption calls succeed as long as a record is
\* left, the k-th removes the k-th message accepted, the store holds the
\* remaining ones in arrival order, and after the N-th it is empty.
C3_Fifo ==
    /\ phase = "fill" => q = sent
    /\ phase = "drain" =>
         /\ Len(got) <= Len(sent)
         /\ got = SubSeq(sent, 1, Len(got))
         /\ q = SubSeq(sent, Len(got) + 1, Len(sent))
         /\ \/ Removed /\ item = sent[Len(got)]
            \/ EmptyError /\ got = sent

\* Three messages were accepted and three consumption calls removed them.
C3_Witness ==
    phase = "drain" /\ Len(sent) = 3 /\ got = sent /\ Removed /\ q = << >>

-----------------------------------------------------------------------------
(* C4 *)

\* The calendar date written in a timestamp, as DD.MM.YYYY.
WrittenDate(text) ==
    CASE text = T1 -> "01.05.2023"
      [] text = T2 -> "01.05.2023"
      [] text = T3 -> "02.05.2023"

\* A key of the filter matches the record's own field.
KeyMatches(elem, key, value) ==
    IF key = "date" THEN PyStr(WrittenDate(Field(elem, "Timestamp"))) = value
    ELSE Field(elem, paths(key)) = value

RecordMatches(elem, f) == \A key \in DOMAIN f : KeyMatches(elem, key, f[key])

\* The records of the store that match the filter, in arrival order.
Expected(store, f) == SelectSeq(store, LAMBDA elem : RecordMatches(elem, f))

FilterOf(request) == request.with[2]["filter"][2]

ValidQuery ==
    req.op = "find" /\ prev # << >> /\ validate_json(req.with) = "valid"

\* C4: a query with a valid filter on a non-empty store returns exactly the
\* stored records every key of the filter matches, in arrival order, and
\* NoMatchError when there is none.
C4_FilterExact ==
    ValidQuery =>
      LET expected == Expected(q, FilterOf(req)) IN
      IF expected = << >> THEN NoMatchError
      ELSE Matches /\ result = Pack(expected)

-----------------------------------------------------------------------------
(* C5 *)

\* Whatever a query answers, the store holds the records it held before.
C5_QueryFrame == req.op = "find" => q = prev

\* A step keeps the records of the store as they are: it adds one at the
\* tail, removes the head, or leaves the store alone.
C5_RecordsKept ==
    \/ q' = q
    \/ Len(q') = Len(q) + 1 /\ SubSeq(q', 1, Len(q)) = q
    \/ Len(q) > 0 /\ q' = Tail(q)

-----------------------------------------------------------------------------
(* C6 *)

\* C6: a consumption or a query on an empty store yields EmptyError, whatever
\* the query document is, and the store stays empty.
C6_EmptyStore ==
    (req.op \in {"get", "find"} /\ prev = << >>) => (EmptyError /\ q = << >>)

\* An invalid query document on an empty store was answered with EmptyError.
C6_Witness ==
    /\ req.op = "find"
    /\ prev = << >>
    /\ validate_json(req.with) # "valid"
    /\ EmptyError

-----------------------------------------------------------------------------
(* C7 *)

\* C7: a submission that does not parse yields ParseError, one that parses and
\* does not have exactly the five header fields in order yields SchemaError,
\* and neither changes the store.
C7_Rejected ==
    /\ (req.op = "send" /\ ~req.with.wf) => (ParseError /\ q = prev)
    /\ (req.op = "send" /\ req.with.wf /\ ~FiveFields(req.with.blocks))
         => (SchemaError /\ q = prev)

\* A message without Body was rejected on a store of two records.
C7_Witness ==
    req.op = "send" /\ req.with.blocks = NoBody /\ SchemaError /\ Len(q) = 2

-----------------------------------------------------------------------------
(* C8 *)

DateQuery == ValidQuery /\ DOMAIN FilterOf(req) = {"date"}

\* C8: with a filter on `date` alone, the records returned are those whose own
\* timestamp, written as DD.MM.YYYY, equals the filter value.
C8_DateRule ==
    DateQuery =>
      LET own == SelectSeq(q, LAMBDA elem :
                     PyStr(WrittenDate(Field(elem, "Timestamp"))) = FilterOf(req)["date"])
      IN IF own = << >> THEN NoMatchError ELSE Matches /\ result.children = own

-----------------------------------------------------------------------------
(* C9 *)

\* The filter object the claim describes: 1 to 4 entries, the keys among
\* to, from, date, title, the values strings.
FilterObject(v) ==
    /\ IsObj(v)
    /\ Cardinality(Keys(v)) \in 1..4
    /\ Keys(v) \subseteq FilterKeys
    /\ \A k \in Keys(v) : IsString(v[2][k])

\* As the claim has it: `filter` is the only top-level key.
OnlyFilter(doc) ==
    IsObj(doc) /\ Keys(doc) = {"filter"} /\ FilterObject(doc[2]["filter"])

\* As the schema has it: `filter` is a top-level key.
HasFilter(doc) ==
    IsObj(doc) /\ "filter" \in Keys(doc) /\ FilterObject(doc[2]["filter"])

Validated == req.op = "find" /\ prev # << >>

\* C9 as claimed: the validator accepts exactly the documents whose only
\* top-level key is a well-formed `filter`.
C9_OnlyFilterKey ==
    Validated => (FilterValidationError <=> ~OnlyFilter(req.with))

\* C9 as amended: the validator accepts exactly the documents that have a
\* well-formed `filter` key; other top-level keys are not looked at.
C9_FilterKey ==
    Validated => (FilterValidationError <=> ~HasFilter(req.with))

\* A document with a valid filter and a second top-level key was accepted.
C9_Witness ==
    /\ Validated
    /\ IsObj(req.with)
    /\ Keys(req.with) = {"filter", "limit"}
    /\ ~FilterValidationError

-----------------------------------------------------------------------------
(* C10 *)

\* C10: with two submissions in service at once, the store never holds two
\* records with the same serialisation, and a submission ends accepted or
\* rejected, never in an internal failure.
C10_ConcurrentSubmit ==
    /\ \A i, j \in 1..Len(q) : i # j => tostring(q[i]) # tostring(q[j])
    /\ \A t \in Threads : ~(loc[t].op = "send" /\ loc[t].resp = InternalError)

-----------------------------------------------------------------------------
(* C11 *)

\* C11: with two consumptions in service at once, each ends removing a record
\* or with EmptyError; none ends in an internal failure from removing from a
\* store the other has emptied.
C11_ConcurrentConsume ==
    \A t \in Threads : ~(loc[t].op = "get" /\ loc[t].resp = InternalError)

-----------------------------------------------------------------------------
(* C12 *)

\* C12: a query in service at once with a submission or a consumption
\* completes with a result or NoMatchError, never in an internal failure.
C12_ConsistentScan ==
    \A t \in Threads : ~(loc[t].op = "find" /\ loc[t].resp = InternalError)

-----------------------------------------------------------------------------
(* C13 *)

\* A query of thread t has ended with a result or with NoMatchError.
Answered(t) ==
    pc[t] = "idle" /\ loc[t].op = "find" /\ loc[t].resp \in {Ok, NotFound}

Returned(t) ==
    IF loc[t].result.none THEN { }
    ELSE { loc[t].result.children[i] : i \in 1..Len(loc[t].result.children) }

MatchedBy(t) == { loc[t].matched[i] : i \in 1..Len(loc[t].matched) }

\* C13: of two queries in service at once, a record both matched is in the
\* result of both.
C13_ConcurrentQueries ==
    \A t, u \in Threads :
        (t # u /\ Answered(t) /\ Answered(u))
          => \A m \in MatchedBy(t) \cap MatchedBy(u) :
                 m \in Returned(t) /\ m \in Returned(u)

-----------------------------------------------------------------------------
(* C14 *)

\* A valid query on a non-empty store is followed at once by the same query.
C14_SameQuery ==
    (/\ ValidQuery
     /\ req'.op = "find"
     /\ req'.with = req.with)
      => (resp' = resp /\ result' = result)

\* C14: the same valid filter evaluated twice with no submission and no
\* consumption between the two evaluations returns the same result.
C14_Repeatable == [][C14_SameQuery]_vars

-----------------------------------------------------------------------------
(* C15 *)

\* C15: a query ends in EmptyError iff the store is empty; otherwise in
\* FilterValidationError iff the filter document is invalid; otherwise in
\* NoMatchError iff no stored record matches; otherwise it returns the
\* matching records, in arrival order.
C15_Outcome ==
    req.op = "find" =>
      IF prev = << >> THEN EmptyError
      ELSE IF ~HasFilter(req.with) THEN FilterValidationError
      ELSE LET expected == Expected(q, FilterOf(req)) IN
           IF expected = << >> THEN NoMatchError
           ELSE Matches /\ result = Pack(expected)

-----------------------------------------------------------------------------
(* C16 *)

\* A conformant message that a consumption removed from a pack of query
\* results, and that the store does not hold, is accepted at the tail.
C16_Forgotten ==
    (/\ req.op = "send"
     /\ Conformant(req.with)
     /\ \E i \in 1..Len(ghost) : ghost[i] = req.with.blocks
     /\ \A i \in 1..Len(prev) : prev[i] # req.with.blocks)
      => (Accepted /\ q = Append(prev, req.with.blocks))

\* The record a consumption has just removed is submitted again.
C16_Again ==
    (/\ Removed
     /\ req'.op = "send"
     /\ req'.with.wf
     /\ req'.with.blocks = item)
      => (resp' = Created /\ q' = Append(q, item))

\* C16: duplicate detection looks at the records now in the store only: a
\* message identical to a record that a consumption removed is accepted and
\* appended at the tail, whatever queries matched the record before.
C16_Resubmit == [](C16_Forgotten) /\ [][C16_Again]_vars

\* A record that a query had matched together with another one, and that a
\* consumption removed afterwards, was submitted again and is the new tail.
C16_Witness ==
    /\ Accepted
    /\ Len(q) = 2
    /\ ghost[1] = q[2]

=============================================================================
